---- MODULE Spec2Model ----
(***************************************************************************)
(* Model of src/chat_bot.py: the chat sessions kept by AIAssistantApp, the *)
(* OllamaWorker stream threads it starts, and the queued signals by which  *)
(* the workers report back to the UI thread.                               *)
(*                                                                         *)
(* Text is a sequence of one-character strings.  Worker signals are queued *)
(* connections: an emit appends to `events`, the UI thread handles the     *)
(* head of `events` when it is idle.  The status label, the chat widgets   *)
(* and the input box are not part of the state; typing_signal, which only  *)
(* sets the status label, is therefore recorded but not queued.  `sent`    *)
(* (per worker) and `commits` are history variables: they record what a    *)
(* worker emitted and which appends its on_full handler made; no action    *)
(* reads them.  `lines_read` counts the lines the workers have read from   *)
(* the backend and only bounds the model.  `stream` is the response body   *)
(* the backend serves in SpecStream, with each worker's position in it;    *)
(* `tts` is the speech side of the application (tts_thread, the TTSThread  *)
(* objects and their queued finished_speaking signals), used in SpecTTS.   *)
(***************************************************************************)
EXTENDS Integers, Sequences, FiniteSets, TLC

VARIABLES chat_sessions, current_session_id, current_model, ollama_worker,
          workers, events, ui, commits, lines_read, stream, tts

vars == <<chat_sessions, current_session_id, current_model, ollama_worker,
          workers, events, ui, commits, lines_read, stream, tts>>

\* ---------------------------------------------------------------- bounds
MaxSessions == 2
MaxWorkers == 2
MaxLines == 2
MaxScript == 3
MaxSpeech == 2

\* ------------------------------------------------------------- constants
TitleLen == 30
None == "None"
NoWorker == 0

Min(a, b) == IF a < b THEN a ELSE b

\* ------------------------------------------------------------------ text
Ellipsis == <<".", ".", ".">>
NewChatTitle == <<"N", "e", "w", " ", "C", "h", "a", "t">>
Greeting == <<"H", "e", "l", "l", "o", "!">>
ShortText == <<"s", "h", "o", "r", "t", " ", "t", "e", "x", "t">>
Hi == <<"H", "i">>
There == <<" ", "t", "h", "e", "r", "e">>
ErrText == <<"e", "r", "r">>

\* what the user may have in the input box when Send is clicked
Inputs == { <<>>, <<" ", " ">>, <<" ">> \o ShortText \o <<" ", "\n">> }

\* what GET /api/tags may do: fail, or answer a list of model names
TagReplies ==
  { [ok |-> FALSE, models |-> <<>>],
    [ok |-> TRUE, models |-> <<>>],
    [ok |-> TRUE, models |-> <<"X">>] }

\* load_models: the value left in current_model
LoadedModel(reply) ==
  IF reply.ok /\ reply.models # <<>> THEN reply.models[1] ELSE "None"

IsSpace(c) == c \in {" ", "\n", "\t"}

RECURSIVE LStrip(_)
LStrip(s) == IF s # <<>> /\ IsSpace(Head(s)) THEN LStrip(Tail(s)) ELSE s

RECURSIVE RStrip(_)
RStrip(s) ==
  IF s # <<>> /\ IsSpace(s[Len(s)]) THEN RStrip(SubSeq(s, 1, Len(s) - 1)) ELSE s

\* str.strip()
Strip(s) == RStrip(LStrip(s))

\* text[:30] + ("..." if len(text) > 30 else "")
TitleOf(text) ==
  SubSeq(text, 1, Min(TitleLen, Len(text)))
    \o (IF Len(text) > TitleLen THEN Ellipsis ELSE <<>>)

\* -------------------------------------------------------- stream records
\* One line of the /api/chat response as run() sees it:
\*   raw = "empty"    an empty line                      (not line)
\*   raw = "bad"      bytes json.loads rejects
\*   raw = "json"     a parsed value; dict says whether it is a dict,
\*                    msg whether data["message"] is a dict, content its
\*                    "content" (<<>> when absent or empty), done the
\*                    truth of data.get("done", False)
Line(raw, isdict, msg, content, done) ==
  [raw |-> raw, dict |-> isdict, msg |-> msg, content |-> content, done |-> done]

NoLine == Line("none", FALSE, FALSE, <<>>, FALSE)

\* the lines the backend may send next to a worker that has accumulated
\* full: the backend's deltas are "Hi", then " there"
Lines(full) ==
  { Line("empty", FALSE, FALSE, <<>>, FALSE),
    Line("bad", FALSE, FALSE, <<>>, FALSE),
    Line("json", TRUE, TRUE, IF full = <<>> THEN Hi ELSE There, FALSE),
    Line("json", TRUE, FALSE, <<>>, TRUE) }

\* -------------------------------------------------------------- sessions
Msg(role, content) == [role |-> role, content |-> content]

\* index in chat_sessions of the first session with the given id
IndexOf(sessions, sid) ==
  CHOOSE i \in 1..Len(sessions) :
    /\ sessions[i].id = sid
    /\ \A j \in 1..(i - 1) : sessions[j].id # sid

\* next(s for s in self.chat_sessions if s["id"] == self.current_session_id)
GetSession(sessions, sid) == sessions[IndexOf(sessions, sid)]

\* a slip of AppendMessage: the message is inserted at the head of the log
AppendMessageAtHead(sessions, sid, m) ==
  [sessions EXCEPT ![IndexOf(sessions, sid)].messages = <<m>> \o @]

\* session["messages"].append(m) on the session with id sid
AppendMessage(sessions, sid, m) ==
  [sessions EXCEPT ![IndexOf(sessions, sid)].messages = Append(@, m)]

\* sum(1 for m in session["messages"] if m["role"] == "user")
UserCount(msgs) == Cardinality({ i \in 1..Len(msgs) : msgs[i].role = "user" })

\* _render_message(role, text, initial): the part that touches the sessions
RenderMessage(sessions, cur, role, text, initial) ==
  IF initial THEN sessions
  ELSE LET s1 == AppendMessage(sessions, cur, Msg(role, text))
           i == IndexOf(s1, cur)
       IN IF role = "user" /\ UserCount(s1[i].messages) = 1
          THEN [s1 EXCEPT ![i].title = TitleOf(text)]
          ELSE s1

\* --------------------------------------------------------------- workers
Emit(w, sig, arg) == [w |-> w, sig |-> sig, arg |-> arg]

\* OllamaWorker.__init__ followed by start(); session is the session object
\* the handlers connected in send_message close over.  cancel is a history
\* field: stop() was called while run() had not returned
NewWorker(model, sid) ==
  [model |-> model, session |-> sid, running |-> TRUE, pc |-> "start",
   full |-> <<>>, line |-> NoLine, sent |-> <<>>, cancel |-> FALSE]

WorkerIds == 1..Len(workers)


\* ------------------------------------------------------------------ Init
\* no response body is scripted: workers draw their lines from Lines
NoStream == [script |-> <<>>, pos |-> <<>>]

\* __init__, lines 144-146: no TTSThread yet
NoTts == [thread |-> 0, threads |-> <<>>, events |-> <<>>]

\* __init__: load_models() then start_new_chat(initial=True)
InitApp ==
  /\ \E reply \in TagReplies : current_model = LoadedModel(reply)
  /\ chat_sessions = << [id |-> 1, title |-> NewChatTitle, messages |-> <<>>] >>
  /\ current_session_id = 1
  /\ ollama_worker = NoWorker
  /\ workers = <<>>
  /\ events = <<>>
  /\ ui = [pc |-> "idle", session |-> 0]
  /\ commits = <<>>
  /\ lines_read = 0
  /\ tts = NoTts

Init == InitApp /\ stream = NoStream

\* ------------------------------------------------------------ UI actions
\* load_models (Refresh Models button)
LoadModels ==
  /\ ui.pc = "idle"
  /\ \E reply \in TagReplies : current_model' = LoadedModel(reply)
  /\ UNCHANGED <<chat_sessions, current_session_id, ollama_worker, workers,
                 events, ui, commits, lines_read, stream, tts>>

\* a slip of FreshId: the id of the first session is handed out again
FreshIdReused(sessions) == 1

\* str(uuid.uuid4()): an id no session has yet
FreshId(sessions) == Len(sessions) + 1

\* a slip of InsertSession: the new session is put at the tail
InsertSessionAtTail(sessions, session) == Append(sessions, session)

\* self.chat_sessions.insert(0, session)
InsertSession(sessions, session) == <<session>> \o sessions

\* start_new_chat() from the New Chat button (initial=False)
StartNewChat ==
  /\ ui.pc = "idle"
  /\ Len(chat_sessions) < MaxSessions
  /\ LET cid == FreshId(chat_sessions)
         session == [id |-> cid, title |-> NewChatTitle, messages |-> <<>>]
     IN /\ chat_sessions' =
             RenderMessage(InsertSession(chat_sessions, session), cid, "assistant",
                           Greeting, FALSE)
        /\ current_session_id' = cid
  /\ UNCHANGED <<current_model, ollama_worker, workers, events, ui, commits, lines_read, stream, tts>>

\* _on_chat_selected(item)
OnChatSelected ==
  /\ ui.pc = "idle"
  /\ \E i \in 1..Len(chat_sessions) :
       LET cid == chat_sessions[i].id
       IN IF cid = current_session_id
          THEN UNCHANGED <<chat_sessions, current_session_id>>
          ELSE /\ current_session_id' = cid
               \* the stored messages are re-rendered with initial=True
               /\ chat_sessions' =
                    RenderMessage(chat_sessions, cid, "user", <<>>, TRUE)
  /\ UNCHANGED <<current_model, ollama_worker, workers, events, ui, commits, lines_read, stream, tts>>

\* OllamaWorker.stop() on worker w
Stop(ws, w) ==
  [ws EXCEPT ![w].running = FALSE, ![w].cancel = (ws[w].pc # "done")]

\* send_message, lines 387-415: build the new worker and start it
StartWorker(sessions, sid, ws) ==
  /\ workers' = Append(ws, NewWorker(current_model, sid))
  /\ ollama_worker' = Len(ws) + 1
  /\ chat_sessions' = sessions
  /\ ui' = [pc |-> "idle", session |-> 0]

\* a slip of Rejected: the test for a selected model is missing
RejectedOnlyEmpty(user_text, model) == user_text = <<>>

\* send_message, lines 356-360: the two early returns
Rejected(user_text, model) == user_text = <<>> \/ model = None

\* send_message up to the wait(200) on a previous worker, or to its end when
\* there is none
SendMessage ==
  /\ ui.pc = "idle"
  /\ \E input \in Inputs :
       LET user_text == Strip(input)
       IN IF Rejected(user_text, current_model)
          THEN UNCHANGED <<chat_sessions, ollama_worker, workers, ui>>
          ELSE /\ Len(workers) < MaxWorkers
               /\ LET s1 == AppendMessage(chat_sessions, current_session_id,
                                          Msg("user", user_text))
                      s2 == RenderMessage(s1, current_session_id, "user", user_text, FALSE)
                  IN IF ollama_worker # NoWorker
                     THEN /\ workers' = Stop(workers, ollama_worker)
                          /\ chat_sessions' = s2
                          /\ ui' = [pc |-> "wait", session |-> current_session_id]
                          /\ UNCHANGED ollama_worker
                     ELSE StartWorker(s2, current_session_id, workers)
  /\ UNCHANGED <<current_session_id, current_model, events, commits, lines_read, stream, tts>>

\* wait(200) returns (the old worker finished, or 200 ms passed) and
\* send_message runs to its end
SendResume ==
  /\ ui.pc = "wait"
  /\ StartWorker(chat_sessions, ui.session, workers)
  /\ UNCHANGED <<current_session_id, current_model, events, commits, lines_read, stream, tts>>

\* on_full(full_text) of worker w
OnFull(w, full_text) ==
  LET sid == workers[w].session
      s1 == AppendMessage(chat_sessions, sid, Msg("assistant", full_text))
  IN /\ chat_sessions' =
          RenderMessage(s1, current_session_id, "assistant", full_text, FALSE)
     /\ ollama_worker' = NoWorker
     /\ commits' = commits \o
          << [w |-> w, sid |-> sid, content |-> full_text],
             [w |-> w, sid |-> current_session_id, content |-> full_text] >>

\* a slip of OnChunk: the partial text is written to the session log
OnChunkCommitting(w, chunk) ==
  /\ chat_sessions' =
       AppendMessage(chat_sessions, workers[w].session, Msg("assistant", chunk))
  /\ UNCHANGED <<ollama_worker, commits>>

\* on_chunk(chunk) of worker w: only the placeholder label is rewritten
OnChunk(w, chunk) == UNCHANGED <<chat_sessions, ollama_worker, commits>>

\* the error_occurred lambda of worker w: _show_system("AI Error: ...")
OnError(w, e) == UNCHANGED <<chat_sessions, ollama_worker, commits>>

\* the UI thread handles the oldest queued signal
Deliver ==
  /\ ui.pc = "idle"
  /\ events # <<>>
  /\ LET e == Head(events)
     IN /\ events' = Tail(events)
        /\ CASE e.sig = "full" -> OnFull(e.w, e.arg)
             [] e.sig = "chunk" -> OnChunk(e.w, e.arg)
             [] e.sig = "error" -> OnError(e.w, e.arg)
  /\ UNCHANGED <<current_session_id, current_model, workers, ui, lines_read, stream, tts>>

\* --------------------------------------------------------- worker actions
WorkerFrame == UNCHANGED <<chat_sessions, current_session_id, current_model,
                           ollama_worker, ui, commits, tts>>

\* a slip of EmitFull: typing_signal(False) is emitted before full_response
EmitFullAfterTyping(w, full) == <<Emit(w, "typing", FALSE), Emit(w, "full", full)>>

\* the signals a worker emits when it leaves the try block normally
\* (line 74, then the finally clause, line 78)
EmitFull(w, full) == <<Emit(w, "full", full), Emit(w, "typing", FALSE)>>

\* a slip of EmitError: full_response is emitted on the error path as well,
\* as if line 74 stood in the finally clause
EmitErrorThenFull(w) ==
  <<Emit(w, "error", ErrText), Emit(w, "full", workers[w].full), Emit(w, "typing", FALSE)>>

\* the signals a worker emits when the try block raises (lines 75-78)
EmitError(w) == <<Emit(w, "error", ErrText), Emit(w, "typing", FALSE)>>

\* worker w moves to pc p holding line, with accumulated text full, and
\* emits sigs in order
Step(w, p, sigs, full, line) ==
  /\ workers' = [workers EXCEPT ![w] =
       [@ EXCEPT !.pc = p, !.full = full, !.line = line, !.sent = @ \o sigs]]
  /\ events' = events \o SelectSeq(sigs, LAMBDA e : e.sig # "typing")
  /\ WorkerFrame

\* run(), lines 48-53: typing_signal(True); requests.post and
\* raise_for_status succeed
WPostOk(w) ==
  /\ workers[w].pc = "start"
  /\ Step(w, "iter", <<Emit(w, "typing", TRUE)>>, <<>>, NoLine)
  /\ UNCHANGED <<lines_read, stream>>

\* run(), lines 48-53 and 75-78: requests.post or raise_for_status raises
\* (connection refused, non-2xx status, timeout)
WPostRaise(w) ==
  /\ workers[w].pc = "start"
  /\ Step(w, "done", <<Emit(w, "typing", TRUE)>> \o EmitError(w), <<>>, NoLine)
  /\ UNCHANGED <<lines_read, stream>>

\* iter_lines raises while the body is read (lines 54, 75-78)
WRaise(w) ==
  /\ workers[w].pc = "iter"
  /\ Step(w, "done", EmitError(w), workers[w].full, NoLine)
  /\ UNCHANGED <<lines_read, stream>>

\* iter_lines is exhausted, the connection was closed (lines 54, 74, 78)
WClose(w) ==
  /\ workers[w].pc = "iter"
  /\ Step(w, "done", EmitFull(w, workers[w].full), workers[w].full, NoLine)
  /\ UNCHANGED <<lines_read, stream>>

\* a slip of ReadLine: a line json.loads rejects ends the loop
ReadLineBadBreaks(w, l) ==
  LET full == workers[w].full
  IN IF ~workers[w].running \/ l.raw = "bad"
     THEN Step(w, "done", EmitFull(w, full), full, NoLine)
     ELSE IF l.raw # "json" THEN Step(w, "iter", <<>>, full, NoLine)
     ELSE Step(w, "proc", <<>>, full, l)

\* lines 55-62 for the line l that iter_lines has yielded: the stop check
\* and the two skips
ReadLine(w, l) ==
  LET full == workers[w].full
  IN IF ~workers[w].running THEN Step(w, "done", EmitFull(w, full), full, NoLine)
     ELSE IF l.raw # "json" THEN Step(w, "iter", <<>>, full, NoLine)
     ELSE Step(w, "proc", <<>>, full, l)

\* iter_lines yields a line
WNextLine(w) ==
  /\ workers[w].pc = "iter"
  /\ lines_read < MaxLines
  /\ lines_read' = lines_read + 1
  /\ \E l \in Lines(workers[w].full) : ReadLine(w, l)
  /\ UNCHANGED stream

\* lines 65-72: a parsed record; on done, lines 74 and 78
WProcess(w) ==
  /\ workers[w].pc = "proc"
  /\ LET l == workers[w].line
         hit == l.dict /\ l.msg /\ l.content # <<>>
         full == IF hit THEN workers[w].full \o l.content ELSE workers[w].full
         chunk == IF hit THEN <<Emit(w, "chunk", l.content)>> ELSE <<>>
     IN IF l.dict /\ l.done
        THEN Step(w, "done", chunk \o EmitFull(w, full), full, NoLine)
        ELSE Step(w, "iter", chunk, full, NoLine)
  /\ UNCHANGED <<lines_read, stream>>

\* The conversation: everything but the Refresh Models button, which only
\* sets current_model.
Next ==
  \/ StartNewChat
  \/ OnChatSelected
  \/ SendMessage
  \/ SendResume
  \/ Deliver
  \/ \E w \in WorkerIds : WPostOk(w)
  \/ \E w \in WorkerIds : WPostRaise(w)
  \/ \E w \in WorkerIds : WRaise(w)
  \/ \E w \in WorkerIds : WClose(w)
  \/ \E w \in WorkerIds : WNextLine(w)
  \/ \E w \in WorkerIds : WProcess(w)

Spec == Init /\ [][Next]_vars

\* The conversation together with the Refresh Models button.
NextModels ==
  \/ LoadModels
  \/ Next

SpecModels == Init /\ [][NextModels]_vars

\* ------------------------------------------------- one scripted response
\* the lines a response body may hold
StreamLines ==
  { Line("empty", FALSE, FALSE, <<>>, FALSE),
    Line("bad", FALSE, FALSE, <<>>, FALSE),
    Line("json", FALSE, FALSE, <<>>, FALSE),
    Line("json", TRUE, TRUE, Hi, FALSE),
    Line("json", TRUE, TRUE, There, FALSE),
    Line("json", TRUE, TRUE, <<>>, FALSE),
    Line("json", TRUE, TRUE, Hi, TRUE),
    Line("json", TRUE, FALSE, <<>>, TRUE) }

Scripts == UNION { [1..n -> StreamLines] : n \in 0..MaxScript }

RECURSIVE RunLines(_)
\* run(), lines 54-72, as a function of the lines iter_lines yields to a
\* worker that is never stopped: the deltas it emits, in order
RunLines(lines) ==
  IF lines = <<>> THEN <<>>
  ELSE LET l == Head(lines)
           d == IF l.dict /\ l.msg /\ l.content # <<>> THEN <<l.content>> ELSE <<>>
       IN IF l.raw # "json" THEN RunLines(Tail(lines))
          ELSE IF l.dict /\ l.done THEN d
          ELSE d \o RunLines(Tail(lines))

\* the application is constructed with a model loaded, and the backend will
\* answer the first request with some script
InitStream ==
  /\ InitApp
  /\ current_model # None
  /\ \E sc \in Scripts : stream = [script |-> sc, pos |-> [w \in 1..MaxWorkers |-> 0]]

\* the first send_message of the session
FirstSend == workers = <<>> /\ SendMessage

\* iter_lines yields the next line of the script
WNextScriptLine(w) ==
  /\ workers[w].pc = "iter"
  /\ stream.pos[w] < Len(stream.script)
  /\ ReadLine(w, stream.script[stream.pos[w] + 1])
  /\ stream' = [stream EXCEPT !.pos[w] = @ + 1]
  /\ UNCHANGED lines_read

\* iter_lines is exhausted once the whole script has been read
WScriptClose(w) ==
  /\ stream.pos[w] = Len(stream.script)
  /\ WClose(w)

NextStream ==
  \/ FirstSend
  \/ Deliver
  \/ \E w \in WorkerIds : WPostOk(w)
  \/ \E w \in WorkerIds : WPostRaise(w)
  \/ \E w \in WorkerIds : WRaise(w)
  \/ \E w \in WorkerIds : WScriptClose(w)
  \/ \E w \in WorkerIds : WNextScriptLine(w)
  \/ \E w \in WorkerIds : WProcess(w)

SpecStream == InitStream /\ [][NextStream]_vars

\* ------------------------------------------------------------ the speech side
RECURSIVE StripTags(_)
\* re.sub(r"<[^>]*>", "", text)
StripTags(s) ==
  IF s = <<>> THEN <<>>
  ELSE IF Head(s) = "<" /\ \E i \in 2..Len(s) : s[i] = ">"
  THEN LET k == CHOOSE i \in 2..Len(s) :
                  s[i] = ">" /\ \A j \in 2..(i - 1) : s[j] # ">"
       IN StripTags(SubSeq(s, k + 1, Len(s)))
  ELSE <<Head(s)>> \o StripTags(Tail(s))

\* TTSThread.__init__ followed by start()
NewSpeech(text) == [text |-> text, stopped |-> FALSE, pc |-> "speaking"]

\* the texts of the assistant bubbles on screen: with no stream in flight,
\* the assistant messages of the current session
ReadableTexts ==
  LET msgs == GetSession(chat_sessions, current_session_id).messages
  IN { msgs[i].content : i \in { j \in 1..Len(msgs) : msgs[j].role = "assistant" } }

\* _stop_tts() applied to t; fin tells whether the thread finished within
\* wait(200)
StopTts(t, fin) ==
  IF t.thread # 0 /\ t.threads[t.thread].pc = "speaking"
  THEN [thread |-> 0,
        threads |-> [t.threads EXCEPT ![t.thread] =
                       [@ EXCEPT !.stopped = TRUE,
                                 !.pc = IF fin THEN "done" ELSE @]],
        events |-> IF fin THEN Append(t.events, t.thread) ELSE t.events]
  ELSE t

SpeechFrame == UNCHANGED <<chat_sessions, current_session_id, current_model,
                           ollama_worker, workers, events, ui, commits,
                           lines_read, stream>>

\* start_tts: the Read button of an assistant bubble
ReadClicked ==
  /\ Len(tts.threads) < MaxSpeech
  /\ \E text \in ReadableTexts, fin \in BOOLEAN :
       LET t1 == StopTts(tts, fin)
       IN tts' = [t1 EXCEPT !.threads = Append(@, NewSpeech(StripTags(text))),
                            !.thread = Len(t1.threads) + 1]
  /\ SpeechFrame

\* stop_tts: the Stop button, shown once a Read button has been clicked
StopClicked ==
  /\ tts.threads # <<>>
  /\ \E fin \in BOOLEAN : tts' = StopTts(tts, fin)
  /\ SpeechFrame

\* TTSThread.run returns: the text was spoken to its end, or the engine was
\* stopped
SpeechEnds(t) ==
  /\ tts.threads[t].pc = "speaking"
  /\ tts' = [tts EXCEPT !.threads[t].pc = "done", !.events = Append(@, t)]
  /\ SpeechFrame

\* the finished_speaking lambda (line 312)
OnFinishedSpeaking ==
  /\ tts.events # <<>>
  /\ tts' = [tts EXCEPT !.thread = 0, !.events = Tail(@)]
  /\ SpeechFrame

NextTTS ==
  \/ StartNewChat
  \/ OnChatSelected
  \/ ReadClicked
  \/ StopClicked
  \/ \E t \in 1..Len(tts.threads) : SpeechEnds(t)
  \/ OnFinishedSpeaking

SpecTTS == Init /\ [][NextTTS]_vars

\* ------------------------------------------------------------ properties
IsPrefix(a, b) == Len(a) <= Len(b) /\ SubSeq(b, 1, Len(a)) = a

HasSession(sessions, sid) == \E i \in 1..Len(sessions) : sessions[i].id = sid

LogOf(sessions, sid) == GetSession(sessions, sid).messages

Ids(sessions) == { sessions[i].id : i \in 1..Len(sessions) }

RECURSIVE Concat(_)
Concat(ss) == IF ss = <<>> THEN <<>> ELSE Head(ss) \o Concat(Tail(ss))

\* the signals of kind sig worker w has emitted, in emission order
SentOf(w, sig) == SelectSeq(workers[w].sent, LAMBDA e : e.sig = sig)

\* the concatenation, in emission order, of the deltas worker w has emitted
Deltas(w) == Concat([i \in 1..Len(SentOf(w, "chunk")) |-> SentOf(w, "chunk")[i].arg])

FullSent(w) == SentOf(w, "full") # <<>>
Raised(w) == SentOf(w, "error") # <<>>
Active(w) == workers[w].pc # "done"
Cancelled(w) == workers[w].cancel

\* the appends on_full has made for worker w
CommitsOf(w) == { i \in 1..Len(commits) : commits[i].w = w }

\* this step is the UI thread handling a queued signal of kind sig
Handling(sig) ==
  /\ events # <<>>
  /\ Head(events).sig = sig
  /\ events' = Tail(events)

\* this step is an accepted send_message reaching its stop()/start()
SendAccepted ==
  /\ ui.pc = "idle"
  /\ \/ ui'.pc = "wait"
     \/ Len(workers') = Len(workers) + 1

\* C1: a stream that ends normally (done record or connection close, never
\* stopped, no exception) gives the session it was sent in exactly one new
\* assistant message, whose content is the concatenation of its deltas.
C1_OneCommitOfDeltas ==
  [][ (Handling("full") /\ ~Cancelled(Head(events).w))
        => LET w == Head(events).w
               sid == workers[w].session
           IN LogOf(chat_sessions', sid) =
                Append(LogOf(chat_sessions, sid), Msg("assistant", Deltas(w))) ]_vars

\* C2: a stream that was stopped, before it completed, by the next send in
\* its own session never has an assistant message committed for it.  (The
\* send that stops worker w is the one that creates worker w + 1.)
C2_CancelledCommitsNothing ==
  \A w \in WorkerIds :
    (/\ Cancelled(w)
     /\ w + 1 \in WorkerIds
     /\ workers[w + 1].session = workers[w].session) => CommitsOf(w) = {}

\* C3: at most one worker per session is active (started, run() not yet
\* returned) at any instant.
C3_OneActivePerSession ==
  \A a, b \in WorkerIds :
    (a # b /\ workers[a].session = workers[b].session)
      => ~(Active(a) /\ Active(b))

\* C4: a worker that raised emits error_occurred and never full_response,
\* and no assistant message is ever committed for it.
C4_ErroredCommitsNothing ==
  \A w \in WorkerIds :
    Raised(w) =>
      /\ ~FullSent(w)
      /\ \A i \in 1..Len(events) : ~(events[i].w = w /\ events[i].sig = "full")
      /\ CommitsOf(w) = {}
      /\ ~Active(w)

\* a worker raised after it had accumulated text, and the UI thread has
\* handled everything that was emitted
C4_Witness ==
  \E w \in WorkerIds :
    Raised(w) /\ workers[w].full # <<>> /\ events = <<>> /\ ~Active(w)

\* C5: an accepted send leaves the current session's log equal to its
\* previous log followed by exactly one user message holding the text.
C5_SendAppendsOnce ==
  [][ SendAccepted
        => \E input \in Inputs :
             LogOf(chat_sessions', current_session_id) =
               Append(LogOf(chat_sessions, current_session_id),
                      Msg("user", Strip(input))) ]_vars

\* C6: a session that has a user message is titled after its first user
\* message (the text itself up to 30 characters, else its first 30
\* characters and "..."); a session without one keeps the default title.
C6_TitleFromFirstUserText ==
  \A i \in 1..Len(chat_sessions) :
    LET msgs == chat_sessions[i].messages
        users == SelectSeq(msgs, LAMBDA m : m.role = "user")
    IN chat_sessions[i].title =
         IF users = <<>> THEN NewChatTitle ELSE TitleOf(users[1].content)

\* C7: every session's log is append-only: each step leaves every session
\* in the list, its log extended at the end or unchanged.
C7_AppendOnly ==
  [][ \A sid \in Ids(chat_sessions) :
        /\ HasSession(chat_sessions', sid)
        /\ IsPrefix(LogOf(chat_sessions, sid), LogOf(chat_sessions', sid)) ]_vars

\* two sessions exist, and one of them holds a committed assistant message
\* after a user message, followed by later messages
C7_Witness ==
  /\ Len(chat_sessions) = 2
  /\ \E i \in 1..2 :
       LET msgs == chat_sessions[i].messages
       IN \E j, k \in 1..Len(msgs) :
            j < k /\ k < Len(msgs) /\ msgs[j].role = "user" /\ msgs[k].role = "assistant"

\* C8: only an accepted send and a stream commit change a log: any other
\* step leaves the log of every existing session unchanged, and a session
\* it creates has an empty log.
C8_OnlySendAndCommitMutate ==
  [][ ~(SendAccepted \/ Handling("full"))
        => \A sid \in Ids(chat_sessions') :
             LogOf(chat_sessions', sid) =
               IF HasSession(chat_sessions, sid)
               THEN LogOf(chat_sessions, sid) ELSE <<>> ]_vars

\* C9: the commit made on a stream's completion changes the log of the
\* session the stream was sent in, and of no other session.
C9_CommitOnlyToOwnSession ==
  [][ Handling("full")
        => \A sid \in Ids(chat_sessions) :
             sid # workers[Head(events).w].session
               => LogOf(chat_sessions', sid) = LogOf(chat_sessions, sid) ]_vars

\* C10: when the user selects a different chat while a worker is running,
\* that worker is signalled to stop.
C10_SwitchStopsWorker ==
  [][ (current_session_id' # current_session_id
         /\ Len(chat_sessions') = Len(chat_sessions))
        => \A w \in WorkerIds : Active(w) => ~workers'[w].running ]_vars

\* C11: once stop() has been called on a worker, it emits no further
\* response_chunk and no full_response.
C11_NoEmitAfterStop ==
  [][ \A w \in WorkerIds :
        ~workers[w].running
          => \A i \in (Len(workers[w].sent) + 1)..Len(workers'[w].sent) :
               workers'[w].sent[i].sig \notin {"chunk", "full"} ]_vars

\* C12: once the error_occurred handler of a worker has run, the controller
\* no longer refers to that worker.
C12_ErrorClearsHandle ==
  [][ Handling("error") => ollama_worker' # Head(events).w ]_vars

\* the signals queued for the UI thread that worker w emitted, in order
QueuedOf(w) == SelectSeq(events, LAMBDA e : e.w = w)

IsSuffix(a, b) ==
  Len(a) <= Len(b) /\ SubSeq(b, Len(b) - Len(a) + 1, Len(b)) = a

\* C13: a run emits typing_signal(True) first, then its deltas in the order
\* their records were read, then exactly one terminal signal (full_response
\* or error_occurred), then typing_signal(False); the signals are queued for
\* the UI thread in that order.
C13_SignalOrder ==
  \A w \in WorkerIds :
    LET s == workers[w].sent
        n == Len(s)
    IN /\ workers[w].pc = "start" => s = <<>>
       /\ workers[w].pc \in {"iter", "proc"} =>
            /\ n >= 1
            /\ s[1] = Emit(w, "typing", TRUE)
            /\ \A i \in 2..n : s[i].sig = "chunk"
       /\ workers[w].pc = "done" =>
            /\ n >= 3
            /\ s[1] = Emit(w, "typing", TRUE)
            /\ \A i \in 2..(n - 2) : s[i].sig = "chunk"
            /\ s[n - 1].sig \in {"full", "error"}
            /\ s[n] = Emit(w, "typing", FALSE)
       /\ Deltas(w) = workers[w].full
       /\ IsSuffix(QueuedOf(w), SelectSeq(s, LAMBDA e : e.sig # "typing"))

\* a run has emitted two deltas and then full_response
C13_Witness ==
  \E w \in WorkerIds :
    /\ workers[w].pc = "done"
    /\ Len(SentOf(w, "chunk")) = 2
    /\ FullSent(w)

\* the speech threads whose run() has not returned
Speaking == { t \in 1..Len(tts.threads) : tts.threads[t].pc = "speaking" }

\* C14: at most one speech thread is running, and tts_thread refers to it.
C14_OneSpeechTask ==
  /\ Cardinality(Speaking) <= 1
  /\ \A t \in Speaking : tts.thread = t

\* C15: handling a delta leaves the session list, every log and every title
\* unchanged, and no log holds a message of a stream that is still running.
C15_DeltaLeavesStore ==
  [][ /\ Handling("chunk") => chat_sessions' = chat_sessions
      /\ \A w \in 1..Len(workers') :
           workers'[w].pc # "done"
             => \A i \in 1..Len(commits') : commits'[i].w # w ]_vars

\* a delta of a stream that is still running has been handled
C15_Witness ==
  \E w \in WorkerIds :
    /\ Active(w)
    /\ SentOf(w, "chunk") # <<>>
    /\ QueuedOf(w) = <<>>

\* the ids of the sessions in list order
IdSeq(sessions) == [i \in 1..Len(sessions) |-> sessions[i].id]

\* C17: a step either leaves the order and membership of the session list
\* unchanged, or puts one new session at its head, titled "New Chat", with
\* an id no listed session has, and makes it the current session.
C17_NewestFirst ==
  [][ \/ IdSeq(chat_sessions') = IdSeq(chat_sessions)
      \/ /\ Len(chat_sessions') = Len(chat_sessions) + 1
         /\ Tail(IdSeq(chat_sessions')) = IdSeq(chat_sessions)
         /\ chat_sessions'[1].id \notin Ids(chat_sessions)
         /\ chat_sessions'[1].title = NewChatTitle
         /\ current_session_id' = chat_sessions'[1].id ]_vars

\* a chat was created after the first one had a stream, and the first one
\* has been selected again
C17_Witness ==
  /\ Len(chat_sessions) = 2
  /\ IdSeq(chat_sessions) = <<2, 1>>
  /\ commits # <<>>
  /\ current_session_id = 1

\* C19: every worker that is running and has not been stopped is the one
\* ollama_worker refers to.
C19_RunningWorkerIsReferenced ==
  \A w \in WorkerIds :
    (Active(w) /\ workers[w].running) => ollama_worker = w

\* C20: session ids are pairwise distinct and current_session_id is the id
\* of exactly one listed session.
C20_CurrentSessionExists ==
  /\ \A i, j \in 1..Len(chat_sessions) :
       chat_sessions[i].id = chat_sessions[j].id => i = j
  /\ Cardinality({ i \in 1..Len(chat_sessions) :
                     chat_sessions[i].id = current_session_id }) = 1

\* two chats exist, the older one is current and a send was made in it
C20_Witness ==
  /\ Len(chat_sessions) = 2
  /\ current_session_id = chat_sessions[2].id
  /\ \E w \in WorkerIds : workers[w].session = current_session_id
  /\ events # <<>>

\* the user messages of every session, and every title, in list order
UserSide(sessions) ==
  [i \in 1..Len(sessions) |->
     [id |-> sessions[i].id, title |-> sessions[i].title,
      users |-> SelectSeq(sessions[i].messages, LAMBDA m : m.role = "user")]]

\* C18: while no model is selected no step of the idle UI thread appends a
\* user message, changes a title, creates a worker, or stops or replaces a
\* running one; and a send that is accepted has a selected model and appends
\* a text that is non-empty after trimming.
C18_RejectedSendHasNoEffect ==
  [][ /\ (current_model = None /\ ui.pc = "idle" /\ Len(chat_sessions') = Len(chat_sessions))
          => /\ UserSide(chat_sessions') = UserSide(chat_sessions)
             /\ Len(workers') = Len(workers)
             /\ \A w \in WorkerIds : workers'[w].running = workers[w].running
             /\ ui' = ui
             /\ ollama_worker' = ollama_worker \/ Handling("full")
      /\ SendAccepted
          => LET log == LogOf(chat_sessions', current_session_id)
             IN /\ current_model # None
                /\ log[Len(log)].role = "user"
                /\ log[Len(log)].content # <<>>
                /\ Strip(log[Len(log)].content) = log[Len(log)].content ]_vars

\* the model list was refreshed to nothing while a stream is running, so
\* every send is now rejected
C18_Witness ==
  /\ current_model = None
  /\ ui.pc = "idle"
  /\ ollama_worker # NoWorker
  /\ Active(ollama_worker)
  /\ workers[ollama_worker].running

\* the lines json.loads accepts
Clean(lines) == SelectSeq(lines, LAMBDA l : l.raw = "json")

IsDone(l) == l.raw = "json" /\ l.dict /\ l.done

\* lines up to and including its first done record
UpToDone(lines) ==
  IF \E i \in 1..Len(lines) : IsDone(lines[i])
  THEN SubSeq(lines, 1, CHOOSE i \in 1..Len(lines) :
                          IsDone(lines[i]) /\ \A j \in 1..(i - 1) : ~IsDone(lines[j]))
  ELSE lines

\* the deltas worker w has emitted, in order
DeltaSeq(w) == [i \in 1..Len(SentOf(w, "chunk")) |-> SentOf(w, "chunk")[i].arg]

\* C16: a worker that ran to its full_response over a response body has
\* emitted the deltas, and accumulated the text, of the same body without
\* its empty and unparsable lines, and of that body cut after its first
\* done record.
C16_JunkLinesSkipped ==
  \A w \in WorkerIds :
    (workers[w].pc = "done" /\ FullSent(w) /\ workers[w].running) =>
      /\ DeltaSeq(w) = RunLines(Clean(stream.script))
      /\ DeltaSeq(w) = RunLines(UpToDone(Clean(stream.script)))
      /\ workers[w].full = Concat(RunLines(Clean(stream.script)))
      /\ SentOf(w, "full")[1].arg = workers[w].full

\* a worker has finished a body that has an empty or unparsable line before
\* a delta, and lines after its done record
C16_Witness ==
  \E w \in WorkerIds :
    /\ workers[w].pc = "done"
    /\ FullSent(w)
    /\ DeltaSeq(w) # <<>>
    /\ stream.script[1].raw \in {"empty", "bad"}
    /\ stream.pos[w] < Len(stream.script)

====
